---- MODULE Spec2Model ----
(***************************************************************************)
(* Model of src/app.py: the Streamlit front end of a yt-dlp downloader.    *)
(*                                                                         *)
(* State: the widgets' values, the destination folders, the progress bar   *)
(* and the status placeholder, the options handed to yt-dlp, the last      *)
(* progress event and what the hook did with it, and what the "Start       *)
(* Download" handler displayed.  yt-dlp itself is the environment: once    *)
(* invoked it delivers progress events in any order and then returns or    *)
(* raises.  Strings whose characters the code inspects (quality labels,    *)
(* bitrates, the digits formatted into the format selector) are tuples of  *)
(* one-character strings.  The free-text parts of a status line (filename, *)
(* speed, ETA) do not influence control flow and are left out of it.       *)
(***************************************************************************)
EXTENDS Integers, Sequences, FiniteSets, TLC

VARIABLES
    url, mode, quality, codec, bitrate, save_path, \* widget values of the run
    caller,        \* "handler": the start handler; "direct": a direct call
                   \* of download_video_streamlit; "hook": the hook alone
    pc,            \* "idle" | "running" (inside ydl.download) | "done"
    folders,       \* directories that exist
    progress_bar,  \* fraction the indicator shows, None before st.progress
    status,        \* what the status placeholder shows, None before st.empty
    hook_made,     \* make_progress_hook has been called in this attempt
    ydl_opts,      \* options yt_dlp.YoutubeDL was constructed with
    invocations,   \* calls of ydl.download in this attempt
    d,             \* last progress event delivered to the hook
    bar_arg,       \* value the last hook call passed to progress_bar.progress
    status_arg,    \* text the last hook call passed to the status placeholder
    hook_result,   \* "none" | "returned" | "raised" for the last hook call
    tool_result,   \* Absent | "returned" | the error download_* raised
    st_error,      \* st.error("Please provide a YouTube URL.") is shown
    st_exception,  \* the error st.exception displays, Absent if none
    phase          \* per-attempt phase of the display

vars == <<url, mode, quality, codec, bitrate, save_path, caller, pc, folders,
          progress_bar, status, hook_made, ydl_opts, invocations, d, bar_arg,
          status_arg, hook_result, tool_result, st_error, st_exception, phase>>

\* Python's None.  An optional value is a tuple: None, or <<v>> for v.
None == <<>>

\* A string-valued variable that holds nothing.
Absent == "absent"

\* Largest byte count of a progress event handed to the hook on its own.
MaxBytes == 3

\* Largest byte count of a progress event during a download of the page.
MaxToolBytes == 1

(***************************************************************************)
(* Strings as character tuples                                             *)
(***************************************************************************)
Digits == <<"0", "1", "2", "3", "4", "5", "6", "7", "8", "9">>

\* str(n) for a natural number n
RECURSIVE Str(_)
Str(n) == IF n < 10 THEN <<Digits[n + 1]>>
          ELSE Str(n \div 10) \o <<Digits[(n % 10) + 1]>>

DigitValue(c) == CHOOSE v \in 0..9 : Digits[v + 1] = c

\* int(s) for a string of decimal digits
RECURSIVE int(_)
int(s) == IF Len(s) = 0 THEN 0
          ELSE 10 * int(SubSeq(s, 1, Len(s) - 1)) + DigitValue(s[Len(s)])

LowerChar(c) ==
    CASE c = "B" -> "b" [] c = "E" -> "e" [] c = "S" -> "s" [] c = "T" -> "t"
      [] c = "P" -> "p" [] c = "K" -> "k" [] c = "H" -> "h" [] c = "D" -> "d"
      [] OTHER -> c

\* str.lower()
lower(s) == [i \in 1..Len(s) |-> LowerChar(s[i])]

(***************************************************************************)
(* Widgets                                                                 *)
(***************************************************************************)
best == <<"b", "e", "s", "t">>

\* options of the "Quality" selectbox
QualityOptions ==
    { best,
      <<"2", "1", "6", "0", "p">>, <<"1", "4", "4", "0", "p">>,
      <<"1", "0", "8", "0", "p">>, <<"7", "2", "0", "p">>,
      <<"4", "8", "0", "p">>, <<"3", "6", "0", "p">> }

CodecOptions == {"mp3", "m4a"}

BitrateOptions == { <<"1", "2", "8">>, <<"1", "9", "2">>, <<"3", "2", "0">> }

ModeOptions == {"Video", "Audio only"}

\* what the URL text input can hold: nothing, or some text
URLs == {"", "https://example/video123"}

SavePaths == {"downloads"}

\* labels a direct caller of download_video_streamlit may pass
DirectLabels ==
    QualityOptions \cup
    { <<"7", "2", "0", "P">>, <<"1", "0", "8", "0", "P">>,
      <<"B", "e", "s", "t">>, <<"B", "E", "S", "T">>,
      <<"4", "k">>, <<"1", "4", "4", "p">>, <<"7", "2", "0">>,
      <<"h", "d">>, <<"p">> }

(***************************************************************************)
(* Option mapping                                                          *)
(***************************************************************************)
Stream(name, filters) == [name |-> name, filters |-> filters]

ExtIs(e) == [key |-> "ext", op |-> "=", val |-> e]

HeightAtMost(h) == [key |-> "height", op |-> "<=", val |-> Str(h)]

\* The selector with the last alternative left without a ceiling.
build_video_format_loose_tail(height) ==
    IF height = None
    THEN << <<Stream("bestvideo", <<ExtIs("mp4")>>),
              Stream("bestaudio", <<ExtIs("m4a")>>)>>,
            <<Stream("best", <<ExtIs("mp4")>>)>>,
            <<Stream("bestvideo", <<>>), Stream("bestaudio", <<>>)>>,
            <<Stream("best", <<>>)>> >>
    ELSE << <<Stream("bestvideo", <<ExtIs("mp4"), HeightAtMost(height[1])>>),
              Stream("bestaudio", <<ExtIs("m4a")>>)>>,
            <<Stream("best", <<ExtIs("mp4"), HeightAtMost(height[1])>>)>>,
            <<Stream("bestvideo", <<HeightAtMost(height[1])>>),
              Stream("bestaudio", <<>>)>>,
            <<Stream("best", <<>>)>> >>

\* The selector with the pre-muxed alternatives moved in front of the merges.
build_video_format_premuxed_first(height) ==
    IF height = None
    THEN << <<Stream("best", <<ExtIs("mp4")>>)>>,
            <<Stream("bestvideo", <<ExtIs("mp4")>>),
              Stream("bestaudio", <<ExtIs("m4a")>>)>>,
            <<Stream("bestvideo", <<>>), Stream("bestaudio", <<>>)>>,
            <<Stream("best", <<>>)>> >>
    ELSE << <<Stream("best", <<ExtIs("mp4"), HeightAtMost(height[1])>>)>>,
            <<Stream("bestvideo", <<ExtIs("mp4"), HeightAtMost(height[1])>>),
              Stream("bestaudio", <<ExtIs("m4a")>>)>>,
            <<Stream("bestvideo", <<HeightAtMost(height[1])>>),
              Stream("bestaudio", <<>>)>>,
            <<Stream("best", <<HeightAtMost(height[1])>>)>> >>

\* build_video_format: the "/"-separated alternatives, each a "+"-joined
\* tuple of stream selectors with their bracketed filters.
build_video_format(height) ==
    IF height = None
    THEN << <<Stream("bestvideo", <<ExtIs("mp4")>>),
              Stream("bestaudio", <<ExtIs("m4a")>>)>>,
            <<Stream("best", <<ExtIs("mp4")>>)>>,
            <<Stream("bestvideo", <<>>), Stream("bestaudio", <<>>)>>,
            <<Stream("best", <<>>)>> >>
    ELSE << <<Stream("bestvideo", <<ExtIs("mp4"), HeightAtMost(height[1])>>),
              Stream("bestaudio", <<ExtIs("m4a")>>)>>,
            <<Stream("best", <<ExtIs("mp4"), HeightAtMost(height[1])>>)>>,
            <<Stream("bestvideo", <<HeightAtMost(height[1])>>),
              Stream("bestaudio", <<>>)>>,
            <<Stream("best", <<HeightAtMost(height[1])>>)>> >>

\* the heights dictionary of download_video_streamlit
heights ==
    (best :> None) @@
    (<<"2", "1", "6", "0", "p">> :> <<2160>>) @@
    (<<"1", "4", "4", "0", "p">> :> <<1440>>) @@
    (<<"1", "0", "8", "0", "p">> :> <<1080>>) @@
    (<<"7", "2", "0", "p">> :> <<720>>) @@
    (<<"4", "8", "0", "p">> :> <<480>>) @@
    (<<"3", "6", "0", "p">> :> <<360>>)

\* A lookup that falls back to the lowest ceiling instead of None.
heights_get_lowest(quality_label) ==
    IF lower(quality_label) \in DOMAIN heights
    THEN heights[lower(quality_label)]
    ELSE <<360>>

\* heights.get(quality_label.lower(), None)
heights_get(quality_label) ==
    IF lower(quality_label) \in DOMAIN heights
    THEN heights[lower(quality_label)]
    ELSE None

outtmpl(path) == <<path, "%(title).200B [%(id)s].%(ext)s">>

\* ydl_opts of download_video_streamlit
video_opts(quality_label, path) ==
    [ outtmpl |-> outtmpl(path),
      format |-> build_video_format(heights_get(quality_label)),
      merge_output_format |-> "mp4",
      noplaylist |-> TRUE,
      progress_hooks |-> <<"hook">>,
      quiet |-> TRUE,
      no_warnings |-> TRUE ]

\* ydl_opts of download_audio_streamlit
audio_opts(codec_, bitrate_kbps, path) ==
    [ outtmpl |-> outtmpl(path),
      format |-> << <<Stream("bestaudio", <<>>)>>, <<Stream("best", <<>>)>> >>,
      noplaylist |-> TRUE,
      progress_hooks |-> <<"hook">>,
      postprocessors |-> << [ key |-> "FFmpegExtractAudio",
                              preferredcodec |-> codec_,
                              preferredquality |-> Str(bitrate_kbps) ] >>,
      quiet |-> TRUE,
      no_warnings |-> TRUE ]

(***************************************************************************)
(* Progress hook                                                           *)
(***************************************************************************)
\* an optional byte count: the key is missing (None) or holds a number
OptBytes(max) == {None} \cup {<<n>> : n \in 0..max}

NoEvent == [status |-> "none"]

\* The events yt-dlp passes to a progress hook.  A missing key is None.
ProgressEvents(max) ==
    [ status : {"downloading"},
      total_bytes : OptBytes(max),
      total_bytes_estimate : OptBytes(max),
      downloaded_bytes : OptBytes(max) ]
    \cup
    [ status : {"finished", "error"},
      total_bytes : {None},
      total_bytes_estimate : {None},
      downloaded_bytes : {None} ]

\* Python's truthiness of an optional number
Truthy(x) == x # None /\ x[1] # 0

\* a or b
PyOr(a, b) == IF Truthy(a) THEN a ELSE b

\* A total that defaults to one byte when none is known.
TotalOfOrOne(ev) ==
    PyOr(PyOr(ev.total_bytes, ev.total_bytes_estimate), <<1>>)

\* d.get("total_bytes") or d.get("total_bytes_estimate")
TotalOf(ev) == PyOr(ev.total_bytes, ev.total_bytes_estimate)

\* d.get("downloaded_bytes", 0)
DownloadedOf(ev) ==
    IF ev.downloaded_bytes = None THEN 0 ELSE ev.downloaded_bytes[1]

\* total and total > 0
HasTotal(total) == Truthy(total) /\ total[1] > 0

RECURSIVE GCD(_, _)
GCD(a, b) == IF b = 0 THEN a ELSE GCD(b, a % b)

\* a / b, b > 0: the quotient as the pair <<numerator, denominator>> in
\* lowest terms, so that equal quotients are equal values
Div(a, b) == <<a \div GCD(a, b), b \div GCD(a, b)>>

\* min(1.0, q)
Min1(q) == IF q[1] >= q[2] THEN <<1, 1>> ELSE q

\* The fraction without the clamp.
FractionUnclamped(downloaded, total) == Div(downloaded, total)

\* The fraction of what remains instead of what is done.
FractionRemaining(downloaded, total) ==
    Min1(Div(IF downloaded >= total THEN 0 ELSE total - downloaded, total))

\* progress = min(1.0, downloaded / total)
Fraction(downloaded, total) == Min1(Div(downloaded, total))

\* int(progress * 100)
Percent(q) == (q[1] * 100) \div q[2]

\* One call of hook(d), with each sink working or failing (bar_ok,
\* status_ok): the value it passes to progress_bar.progress and the text it
\* passes to the status placeholder (None: no call), whether each call took
\* effect, and whether the hook raised.  A failure of the progress bar is
\* caught inside the hook; a failure of the status placeholder is not, and
\* leaves the hook as an exception.
hook(ev, bar_ok, status_ok) ==
    LET total == TotalOf(ev)
        downloaded == DownloadedOf(ev)
        r == IF ev.status = "downloading"
             THEN IF HasTotal(total)
                  THEN [ bar_arg |-> Fraction(downloaded, total[1]),
                         status_arg |->
                            [ kind |-> "progress",
                              percent |-> Percent(Fraction(downloaded, total[1])) ] ]
                  ELSE [ bar_arg |-> None,
                         status_arg |-> [kind |-> "bytes", bytes |-> downloaded] ]
             ELSE IF ev.status = "finished"
             THEN [ bar_arg |-> <<1, 1>>,
                    status_arg |-> [kind |-> "postprocessing"] ]
             ELSE IF ev.status = "error"
             THEN [ bar_arg |-> None, status_arg |-> [kind |-> "error"] ]
             ELSE [ bar_arg |-> None, status_arg |-> None ]
    IN  [ bar_arg |-> r.bar_arg,
          status_arg |-> r.status_arg,
          bar_set |-> (r.bar_arg # None /\ bar_ok),
          status_set |-> (r.status_arg # None /\ status_ok),
          raised |-> (r.status_arg # None /\ ~status_ok) ]

(***************************************************************************)
(* Start handler                                                           *)
(***************************************************************************)
ToolErrors == {"DownloadError", "PostProcessingError"}

\* A test that lets every URL through.
URLIsEmptyNever(u) == FALSE

\* not url
URLIsEmpty(u) == u = ""

\* The script's first run: default widget values, nothing clicked.
Init ==
    /\ url = ""
    /\ mode = "Video"
    /\ quality = best
    /\ codec = Absent
    /\ bitrate = None
    /\ save_path = "downloads"
    /\ caller = "handler"
    /\ pc = "idle"
    /\ folders = {}
    /\ progress_bar = None
    /\ status = None
    /\ hook_made = FALSE
    /\ ydl_opts = None
    /\ invocations = 0
    /\ d = NoEvent
    /\ bar_arg = None
    /\ status_arg = None
    /\ hook_result = "none"
    /\ tool_result = Absent
    /\ st_error = FALSE
    /\ st_exception = Absent
    /\ phase = "Idle"

\* The widget values of one script run: the mode's own selectors are set,
\* the other mode's are not.
Widgets(u, m, q, c, b, p) ==
    /\ u \in URLs
    /\ m \in ModeOptions
    /\ p \in SavePaths
    /\ IF m = "Video"
       THEN q \in QualityOptions /\ c = Absent /\ b = None
       ELSE q = None /\ c \in CodecOptions /\ b \in BitrateOptions
    /\ url' = u
    /\ mode' = m
    /\ quality' = q
    /\ codec' = c
    /\ bitrate' = b
    /\ save_path' = p

\* A rerun draws the page afresh: nothing of the last attempt is shown.
FreshAttempt ==
    /\ d' = NoEvent
    /\ bar_arg' = None
    /\ status_arg' = None
    /\ hook_result' = "none"

\* The options download_video_streamlit / download_audio_streamlit build.
OptsFor(m, q, c, b, p) ==
    IF m = "Video" THEN video_opts(q, p) ELSE audio_opts(c, int(b), p)

\* The user changes a widget after an attempt: the script runs again with
\* start false, and the page shows the widgets and nothing of the attempt.
Rerun ==
    /\ caller = "handler"
    /\ pc = "done"
    /\ FreshAttempt
    /\ progress_bar' = None
    /\ status' = None
    /\ hook_made' = FALSE
    /\ ydl_opts' = None
    /\ invocations' = 0
    /\ tool_result' = Absent
    /\ st_error' = FALSE
    /\ st_exception' = Absent
    /\ phase' = "Idle"
    /\ pc' = "idle"
    /\ UNCHANGED <<url, mode, quality, codec, bitrate, save_path, caller,
                   folders>>

\* "Start Download" with an empty URL: st.error and nothing else.
StartEmpty ==
    /\ caller = "handler"
    /\ pc = "idle"
    /\ \E u \in URLs, m \in ModeOptions, q \in QualityOptions \cup {None},
          c \in CodecOptions \cup {Absent}, b \in BitrateOptions \cup {None},
          p \in SavePaths :
          /\ Widgets(u, m, q, c, b, p)
          /\ URLIsEmpty(u)
    /\ FreshAttempt
    /\ st_error' = TRUE
    /\ st_exception' = Absent
    /\ progress_bar' = None
    /\ status' = None
    /\ hook_made' = FALSE
    /\ ydl_opts' = None
    /\ invocations' = 0
    /\ tool_result' = Absent
    /\ phase' = "Idle"
    /\ pc' = "done"
    /\ UNCHANGED <<caller, folders>>

\* "Start Download" with a URL, and Path(save_path).mkdir raises: the
\* handler's except clause displays the error; yt-dlp is never constructed.
StartMkdirFails ==
    /\ caller = "handler"
    /\ pc = "idle"
    /\ \E u \in URLs, m \in ModeOptions, q \in QualityOptions \cup {None},
          c \in CodecOptions \cup {Absent}, b \in BitrateOptions \cup {None},
          p \in SavePaths :
          /\ Widgets(u, m, q, c, b, p)
          /\ ~URLIsEmpty(u)
          /\ p \notin folders
    /\ FreshAttempt
    /\ st_error' = FALSE
    /\ progress_bar' = <<0, 1>>
    /\ status' = [kind |-> "empty"]
    /\ hook_made' = TRUE
    /\ ydl_opts' = None
    /\ invocations' = 0
    /\ tool_result' = "OSError"
    /\ st_exception' = "OSError"
    /\ phase' = "Failed"
    /\ pc' = "done"
    /\ UNCHANGED <<caller, folders>>

\* "Start Download" with a URL: progress bar, placeholder and hook are made,
\* the folder is created, the options are built and ydl.download is entered.
StartDownload ==
    /\ caller = "handler"
    /\ pc = "idle"
    /\ \E u \in URLs, m \in ModeOptions, q \in QualityOptions \cup {None},
          c \in CodecOptions \cup {Absent}, b \in BitrateOptions \cup {None},
          p \in SavePaths :
          /\ Widgets(u, m, q, c, b, p)
          /\ ~URLIsEmpty(u)
          /\ folders' = folders \cup {p}
          /\ ydl_opts' = OptsFor(m, q, c, b, p)
    /\ FreshAttempt
    /\ st_error' = FALSE
    /\ st_exception' = Absent
    /\ progress_bar' = <<0, 1>>
    /\ status' = [kind |-> "empty"]
    /\ hook_made' = TRUE
    /\ invocations' = 1
    /\ tool_result' = Absent
    /\ phase' = "Idle"
    /\ pc' = "running"
    /\ UNCHANGED caller

\* A direct call download_video_streamlit(url, quality_label, save_path, hook)
\* with a hook over a fresh progress bar and placeholder; mkdir raises.
CallMkdirFails ==
    /\ caller = "direct"
    /\ pc = "idle"
    /\ save_path \notin folders
    /\ FreshAttempt
    /\ progress_bar' = <<0, 1>>
    /\ status' = [kind |-> "empty"]
    /\ hook_made' = TRUE
    /\ ydl_opts' = None
    /\ invocations' = 0
    /\ tool_result' = "OSError"
    /\ phase' = "Failed"
    /\ pc' = "done"
    /\ UNCHANGED <<url, mode, quality, codec, bitrate, save_path, caller,
                   folders, st_error, st_exception>>

\* A direct call download_video_streamlit(url, quality_label, save_path, hook):
\* the folder is created, the options are built and ydl.download is entered.
CallDownloadVideo ==
    /\ caller = "direct"
    /\ pc = "idle"
    /\ folders' = folders \cup {save_path}
    /\ ydl_opts' = video_opts(quality, save_path)
    /\ FreshAttempt
    /\ progress_bar' = <<0, 1>>
    /\ status' = [kind |-> "empty"]
    /\ hook_made' = TRUE
    /\ invocations' = 1
    /\ tool_result' = Absent
    /\ phase' = "Idle"
    /\ pc' = "running"
    /\ UNCHANGED <<url, mode, quality, codec, bitrate, save_path, caller,
                   st_error, st_exception>>

\* The phase an event puts the display in.
PhaseAfter(ev, old) ==
    IF ev.status = "downloading" THEN "Downloading"
    ELSE IF ev.status = "finished" THEN "PostProcessing"
    ELSE old

\* A sink can only be found failing by a hook call that calls it.
SinkOutcome(h, bar_ok, status_ok) ==
    /\ h.bar_arg = None => bar_ok
    /\ h.status_arg = None => status_ok

\* The effect of one hook call h on the two sinks.
ApplyHook(ev, h) ==
    /\ d' = ev
    /\ bar_arg' = h.bar_arg
    /\ status_arg' = h.status_arg
    /\ hook_result' = IF h.raised THEN "raised" ELSE "returned"
    /\ progress_bar' = IF h.bar_set THEN h.bar_arg ELSE progress_bar
    /\ status' = IF h.status_set THEN h.status_arg ELSE status

\* yt-dlp calls the hook with one event.  Either sink may fail on the call.
\* yt-dlp does not catch what a progress hook raises: the download is
\* aborted, ydl.download raises it, and the handler's except clause
\* displays it.
ToolEvent ==
    /\ pc = "running"
    /\ caller \in {"handler", "direct"}
    /\ \E ev \in ProgressEvents(MaxToolBytes), bar_ok \in BOOLEAN,
          status_ok \in BOOLEAN :
          LET h == hook(ev, bar_ok, status_ok) IN
          /\ SinkOutcome(h, bar_ok, status_ok)
          /\ ApplyHook(ev, h)
          /\ IF h.raised
             THEN /\ pc' = "done"
                  /\ tool_result' = "SinkError"
                  /\ st_exception' = IF caller = "handler"
                                     THEN "SinkError" ELSE st_exception
                  /\ phase' = "Failed"
             ELSE /\ pc' = "running"
                  /\ phase' = PhaseAfter(ev, phase)
                  /\ UNCHANGED <<tool_result, st_exception>>
    /\ UNCHANGED <<url, mode, quality, codec, bitrate, save_path, caller,
                   folders, hook_made, ydl_opts, invocations, st_error>>

\* The hook alone: hook = make_progress_hook(progress_bar, status) over a
\* fresh progress bar and placeholder.
MakeHook ==
    /\ caller = "hook"
    /\ pc \in {"idle", "done"}
    /\ FreshAttempt
    /\ progress_bar' = <<0, 1>>
    /\ status' = [kind |-> "empty"]
    /\ hook_made' = TRUE
    /\ phase' = "Idle"
    /\ pc' = "running"
    /\ UNCHANGED <<url, mode, quality, codec, bitrate, save_path, caller,
                   folders, ydl_opts, invocations, tool_result, st_error,
                   st_exception>>

\* The hook alone: one call hook(ev).  The caller stops at an exception.
CallHook ==
    /\ caller = "hook"
    /\ pc = "running"
    /\ \E ev \in ProgressEvents(MaxBytes), bar_ok \in BOOLEAN,
          status_ok \in BOOLEAN :
          LET h == hook(ev, bar_ok, status_ok) IN
          /\ SinkOutcome(h, bar_ok, status_ok)
          /\ ApplyHook(ev, h)
          /\ pc' = IF h.raised THEN "done" ELSE "running"
          /\ phase' = IF h.raised THEN phase ELSE PhaseAfter(ev, phase)
    /\ UNCHANGED <<url, mode, quality, codec, bitrate, save_path, caller,
                   folders, hook_made, ydl_opts, invocations, tool_result,
                   st_error, st_exception>>

\* ydl.download returns.  The handler then calls status.success inside its
\* try block: if the placeholder fails there, the except clause displays
\* that failure.
ToolReturns ==
    /\ pc = "running"
    /\ caller \in {"handler", "direct"}
    /\ tool_result' = "returned"
    /\ pc' = "done"
    /\ IF caller = "handler"
       THEN \E status_ok \in BOOLEAN :
               IF status_ok
               THEN /\ status' = [kind |-> "success"]
                    /\ phase' = "Completed"
                    /\ UNCHANGED st_exception
               ELSE /\ st_exception' = "SinkError"
                    /\ phase' = "Failed"
                    /\ UNCHANGED status
       ELSE /\ phase' = "Completed"
            /\ UNCHANGED <<status, st_exception>>
    /\ UNCHANGED <<url, mode, quality, codec, bitrate, save_path, caller,
                   folders, progress_bar, hook_made, ydl_opts, invocations, d,
                   bar_arg, status_arg, hook_result, st_error>>

\* ydl.download raises: the handler's except clause displays the error.
ToolRaises ==
    /\ pc = "running"
    /\ caller \in {"handler", "direct"}
    /\ \E e \in ToolErrors :
          /\ tool_result' = e
          /\ st_exception' = IF caller = "handler" THEN e ELSE st_exception
    /\ phase' = "Failed"
    /\ pc' = "done"
    /\ UNCHANGED <<url, mode, quality, codec, bitrate, save_path, caller,
                   folders, progress_bar, status, hook_made, ydl_opts,
                   invocations, d, bar_arg, status_arg, hook_result, st_error>>

Next ==
    \/ Rerun
    \/ StartEmpty
    \/ StartMkdirFails
    \/ StartDownload
    \/ ToolEvent
    \/ ToolReturns
    \/ ToolRaises

\* The application: the page and its start handler.
Spec == Init /\ [][Next]_vars

\* download_video_streamlit(url, quality_label, save_path, hook) called
\* directly, with any label and the folder there or not.
InitDirect ==
    /\ url = "https://example/video123"
    /\ mode = "Video"
    /\ quality \in DirectLabels
    /\ codec = Absent
    /\ bitrate = None
    /\ save_path \in SavePaths
    /\ caller = "direct"
    /\ pc = "idle"
    /\ folders \in SUBSET SavePaths
    /\ progress_bar = None
    /\ status = None
    /\ hook_made = FALSE
    /\ ydl_opts = None
    /\ invocations = 0
    /\ d = NoEvent
    /\ bar_arg = None
    /\ status_arg = None
    /\ hook_result = "none"
    /\ tool_result = Absent
    /\ st_error = FALSE
    /\ st_exception = Absent
    /\ phase = "Idle"

NextDirect ==
    \/ CallMkdirFails
    \/ CallDownloadVideo
    \/ ToolEvent
    \/ ToolReturns
    \/ ToolRaises

SpecDirect == InitDirect /\ [][NextDirect]_vars

\* The hook called on its own, with any sequence of events.
InitHook ==
    /\ url = "https://example/video123"
    /\ mode = "Video"
    /\ quality = best
    /\ codec = Absent
    /\ bitrate = None
    /\ save_path = "downloads"
    /\ caller = "hook"
    /\ pc = "idle"
    /\ folders = {}
    /\ progress_bar = None
    /\ status = None
    /\ hook_made = FALSE
    /\ ydl_opts = None
    /\ invocations = 0
    /\ d = NoEvent
    /\ bar_arg = None
    /\ status_arg = None
    /\ hook_result = "none"
    /\ tool_result = Absent
    /\ st_error = FALSE
    /\ st_exception = Absent
    /\ phase = "Idle"

NextHook ==
    \/ MakeHook
    \/ CallHook

SpecHook == InitHook /\ [][NextHook]_vars

(***************************************************************************)
(* Properties                                                              *)
(***************************************************************************)
\* The event's total as the properties read it: total_bytes when it is a
\* number other than 0, else total_bytes_estimate.
EventTotal(ev) ==
    IF ev.total_bytes \notin {None, <<0>>}
    THEN ev.total_bytes ELSE ev.total_bytes_estimate

EventDownloaded(ev) ==
    IF ev.downloaded_bytes = None THEN 0 ELSE ev.downloaded_bytes[1]

KnownTotalEvent(ev) ==
    ev.status = "downloading" /\ EventTotal(ev) \notin {None, <<0>>}

UnknownTotalEvent(ev) ==
    ev.status = "downloading" /\ EventTotal(ev) \in {None, <<0>>}

\* p <= q for fractions with positive denominators
FracLeq(p, q) == p[1] * q[2] <= q[1] * p[2]

HeightFilters(stream) ==
    {i \in 1..Len(stream.filters) : stream.filters[i].key = "height"}

\* no stream of the selector carries a height filter
NoCeiling(f) ==
    \A a \in 1..Len(f) : \A i \in 1..Len(f[a]) : HeightFilters(f[a][i]) = {}

\* every alternative of the selector carries the ceiling "<= digits", and no
\* other height filter
CeilingEverywhere(f, digits) ==
    \A a \in 1..Len(f) :
        /\ \E i \in 1..Len(f[a]) : HeightFilters(f[a][i]) # {}
        /\ \A i \in 1..Len(f[a]) : \A k \in HeightFilters(f[a][i]) :
              /\ f[a][i].filters[k].op = "<="
              /\ f[a][i].filters[k].val = digits

\* C1: whatever the event and whichever sink fails, the progress hook
\* returns normally; no sink failure leaves the hook.
C1_HookNeverRaises == hook_result # "raised"

\* C2: a start with an empty URL yields the invalid-input message at once,
\* in either mode, with yt-dlp never invoked and no progress bar,
\* placeholder, hook or options made; and the step creates no folder.
C2_EmptyURLNeverInvokes ==
    /\ [](url = "" /\ pc # "idle" =>
            /\ pc = "done"
            /\ st_error
            /\ st_exception = Absent
            /\ invocations = 0
            /\ ydl_opts = None
            /\ ~hook_made
            /\ progress_bar = None
            /\ status = None)
    /\ [][url' = "" => folders' = folders]_vars

C2_Witness ==
    /\ url = ""
    /\ mode = "Audio only"
    /\ pc = "done"
    /\ st_error
    /\ invocations = 0
    /\ folders = {"downloads"}

\* C3: yt-dlp is invoked at most once per attempt; if the invocation raised,
\* that same error is displayed and the success status is not; if it
\* returned, the attempt ends in success.
C3_OneInvocationOneOutcome ==
    /\ invocations <= 1
    /\ tool_result \notin {Absent, "returned"} =>
          /\ st_exception = tool_result
          /\ status # [kind |-> "success"]
    /\ tool_result = "returned" =>
          /\ status = [kind |-> "success"]
          /\ st_exception = Absent

\* C4: for a downloading event with a known total, the value passed to the
\* progress indicator is a fraction in [0,1] equal to min(1, downloaded /
\* total): 1 when downloaded reaches or exceeds total, downloaded / total
\* otherwise.
C4_FractionIsClampedQuotient ==
    KnownTotalEvent(d) =>
        /\ bar_arg # None
        /\ bar_arg[2] > 0
        /\ 0 <= bar_arg[1]
        /\ bar_arg[1] <= bar_arg[2]
        /\ EventDownloaded(d) >= EventTotal(d)[1] => bar_arg[1] = bar_arg[2]
        /\ EventDownloaded(d) < EventTotal(d)[1] =>
              bar_arg[1] * EventTotal(d)[1] = EventDownloaded(d) * bar_arg[2]

C4_Witness ==
    /\ caller = "hook"
    /\ KnownTotalEvent(d)
    /\ d.total_bytes = <<0>>
    /\ d.total_bytes_estimate = <<2>>
    /\ d.downloaded_bytes = <<3>>
    /\ bar_arg = <<1, 1>>
    /\ progress_bar = <<1, 1>>

\* C5 as stated: from one known-total downloading event to the next (the
\* hook returning normally), if total and downloaded both grow, the reported
\* fraction does not shrink.
C5_MonotoneWhenBothGrow ==
    [][ ( /\ pc = "running"
          /\ KnownTotalEvent(d)
          /\ KnownTotalEvent(d')
          /\ hook_result' = "returned"
          /\ EventTotal(d')[1] > EventTotal(d)[1]
          /\ EventDownloaded(d') > EventDownloaded(d) )
        => FracLeq(bar_arg, bar_arg') ]_vars

\* C5 amended: from one known-total downloading event to the next, if
\* downloaded grows and total does not, the reported fraction does not
\* shrink.
C5_MonotoneWhenTotalDoesNotGrow ==
    [][ ( /\ pc = "running"
          /\ KnownTotalEvent(d)
          /\ KnownTotalEvent(d')
          /\ EventTotal(d')[1] <= EventTotal(d)[1]
          /\ EventDownloaded(d') > EventDownloaded(d) )
        => FracLeq(bar_arg, bar_arg') ]_vars

\* The bar still shows 1/3 from the call before (its update failed in this
\* call), and this call, with the same total and more bytes, passed 2/3.
C5_Witness ==
    /\ caller = "hook"
    /\ pc = "running"
    /\ d.status = "downloading"
    /\ d.total_bytes = <<3>>
    /\ d.downloaded_bytes = <<2>>
    /\ bar_arg = <<2, 3>>
    /\ progress_bar = <<1, 3>>
    /\ status = [kind |-> "progress", percent |-> 66]

\* C6: a downloading event with unknown total passes nothing to the
\* progress indicator, which keeps its value; the status placeholder alone
\* is called, with the byte-count line.
C6_UnknownTotalLeavesBar ==
    /\ [](UnknownTotalEvent(d) =>
            /\ bar_arg = None
            /\ status_arg = [kind |-> "bytes", bytes |-> EventDownloaded(d)])
    /\ [][pc = "running" /\ UnknownTotalEvent(d')
            => progress_bar' = progress_bar]_vars

C6_Witness ==
    /\ caller = "hook"
    /\ UnknownTotalEvent(d)
    /\ d.total_bytes_estimate = <<0>>
    /\ d.downloaded_bytes = <<2>>
    /\ bar_arg = None
    /\ progress_bar = <<1, 2>>
    /\ status = [kind |-> "bytes", bytes |-> 2]

\* C7: for each of 2160p .. 360p the selector of a Video download carries,
\* in every alternative, the ceiling whose digits are the label's; for
\* "best" no alternative carries a ceiling.
C7_CeilingMatchesLabel ==
    (mode = "Video" /\ ydl_opts # None) =>
        IF quality = best
        THEN NoCeiling(ydl_opts.format)
        ELSE /\ quality[Len(quality)] = "p"
             /\ CeilingEverywhere(ydl_opts.format,
                                  SubSeq(quality, 1, Len(quality) - 1))

C7_Witness ==
    /\ caller = "handler"
    /\ pc = "running"
    /\ mode = "Video"
    /\ quality = <<"7", "2", "0", "p">>
    /\ Len(ydl_opts.format) = 4
    /\ ydl_opts.format[4] =
          <<[ name |-> "best",
              filters |-> <<[ key |-> "height", op |-> "<=",
                              val |-> <<"7", "2", "0">> ]>> ]>>

\* the selector "best" produces
BestSelector == video_opts(best, save_path).format

\* C8 as stated: a direct Video download with a label outside {best, 2160p,
\* 1440p, 1080p, 720p, 480p, 360p} invokes yt-dlp with the unconstrained
\* selector that "best" produces.
C8_UnrecognizedIsBest ==
    (caller = "direct" /\ quality \notin QualityOptions) =>
        /\ pc = "running" =>
              /\ invocations = 1
              /\ ydl_opts.format = BestSelector
              /\ NoCeiling(ydl_opts.format)
        /\ (pc = "done" /\ invocations = 0) => tool_result = "OSError"

\* C8 amended: the label is compared in lower case.  A label that is
\* outside the set once lower-cased invokes yt-dlp with the unconstrained
\* selector that "best" produces; a label that is in the set once
\* lower-cased invokes it with the selector of that lower-cased label.
\* Only a failure to create the folder ends the call before the invocation.
C8_UnrecognizedLowercaseIsBest ==
    caller = "direct" =>
        /\ (pc = "running" /\ lower(quality) \notin QualityOptions) =>
              /\ invocations = 1
              /\ ydl_opts.format = BestSelector
              /\ NoCeiling(ydl_opts.format)
        /\ (pc = "running" /\ lower(quality) \in QualityOptions) =>
              /\ invocations = 1
              /\ ydl_opts.format = video_opts(lower(quality), save_path).format
              /\ lower(quality) # best =>
                    CeilingEverywhere(ydl_opts.format,
                        SubSeq(lower(quality), 1, Len(quality) - 1))
        /\ (pc = "done" /\ invocations = 0) => tool_result = "OSError"

C8_Witness ==
    /\ caller = "direct"
    /\ pc = "running"
    /\ quality = <<"4", "k">>
    /\ invocations = 1
    /\ ydl_opts.format[4] = <<[name |-> "best", filters |-> <<>>]>>
    /\ d.status = "downloading"

PhaseRank(p) ==
    CASE p = "Idle" -> 0
      [] p = "Downloading" -> 1
      [] p = "PostProcessing" -> 2
      [] OTHER -> 3

\* C9: during an attempt the phase only moves forward along Idle,
\* Downloading, PostProcessing, {Completed, Failed}: PostProcessing, once
\* entered on the Finished event, is left only when ydl.download returns or
\* raises, and an attempt that passed validation ends Completed or Failed.
C9_PhasesOnlyForward ==
    /\ [][pc = "running" => PhaseRank(phase') >= PhaseRank(phase)]_vars
    /\ []((pc = "done" /\ url # "") => phase \in {"Completed", "Failed"})

IsMerge(alt) ==
    Len(alt) = 2 /\ alt[1].name = "bestvideo" /\ alt[2].name = "bestaudio"

IsPremuxed(alt) == Len(alt) = 1 /\ alt[1].name = "best"

HasFilter(stream, key, val) ==
    \E i \in 1..Len(stream.filters) :
        stream.filters[i].key = key /\ stream.filters[i].val = val

HasKey(stream, key) ==
    \E i \in 1..Len(stream.filters) : stream.filters[i].key = key

\* C10 as stated: the chain lists a pre-muxed container at or below the
\* ceiling first, then separate video and audio streams to be merged, and
\* last an unconstrained fallback.
C10_PremuxedThenMergeThenUnconstrained ==
    (mode = "Video" /\ ydl_opts # None) =>
        LET f == ydl_opts.format IN
        /\ Len(f) >= 3
        /\ IsPremuxed(f[1])
        /\ \A a \in 2..(Len(f) - 1) : IsMerge(f[a])
        /\ f[Len(f)] = <<[name |-> "best", filters |-> <<>>]>>

\* C10 amended: the chain lists, in this order, separate mp4 video and m4a
\* audio streams to be merged, a pre-muxed mp4, separate video and audio
\* streams of any container to be merged, and a pre-muxed file of any
\* container; with a ceiling every one of the four is held at or below it,
\* the last included, and only "best" leaves the last one unconstrained.
C10_MergeMp4ThenPremuxedMp4ThenAny ==
    (mode = "Video" /\ ydl_opts # None) =>
        LET f == ydl_opts.format IN
        /\ Len(f) = 4
        /\ IsMerge(f[1])
        /\ HasFilter(f[1][1], "ext", "mp4")
        /\ HasFilter(f[1][2], "ext", "m4a")
        /\ IsPremuxed(f[2])
        /\ HasFilter(f[2][1], "ext", "mp4")
        /\ IsMerge(f[3])
        /\ ~HasKey(f[3][1], "ext")
        /\ ~HasKey(f[3][2], "ext")
        /\ IsPremuxed(f[4])
        /\ ~HasKey(f[4][1], "ext")
        /\ \A a \in 1..4 : HasKey(f[a][1], "height") <=> quality # best
        /\ (f[4][1].filters = <<>>) <=> quality = best

C10_Witness ==
    /\ caller = "handler"
    /\ pc = "running"
    /\ mode = "Video"
    /\ quality = <<"1", "0", "8", "0", "p">>
    /\ IsMerge(ydl_opts.format[1])
    /\ HasFilter(ydl_opts.format[1][1], "height", <<"1", "0", "8", "0">>)
    /\ IsPremuxed(ydl_opts.format[2])
    /\ ydl_opts.format[4] =
          <<[ name |-> "best",
              filters |-> <<[ key |-> "height", op |-> "<=",
                              val |-> <<"1", "0", "8", "0">> ]>> ]>>

====
